---- MODULE Spec2Model ----
(***************************************************************************)
(* Monte Carlo pricing of a European call under Black-Scholes, with the    *)
(* control-variate and antithetic-variate estimators and the strike sweep  *)
(* of src/Options_Pricing_Variance_Reduction.ipynb.                        *)
(*                                                                         *)
(* Numbers.  The notebook computes in IEEE doubles.  Here a number is      *)
(* exact: a rational p plus a signed square root, or one of the special    *)
(* values nan, +inf, -inf with numpy's rules for them (0/0 = nan, x/0 =    *)
(* inf, nan propagates, every comparison with nan is false).  Rounding is  *)
(* not modelled.  exp is modelled on the half-integer lattice with e       *)
(* replaced by 4 (Exp), which keeps exp positive, increasing and           *)
(* multiplicative; the normal quantile is a table (NormPpf).               *)
(***************************************************************************)
EXTENDS Integers, Sequences, FiniteSets, TLC

(***************************************************************************)
(* Bounds of the model.                                                    *)
(***************************************************************************)
\* largest sample size an estimator is called with
MaxN == 3
\* largest half sample size the antithetic estimator is called with
MaxHalfN == 2
\* number of estimator / sweep calls logged in one run of the notebook
MaxCalls == 2
\* number of strikes of the sweep (numberofk)
NumberOfK == 3

(***************************************************************************)
(* Rationals: <<n, d>> with d > 0 and gcd(n, d) = 1.                       *)
(***************************************************************************)
Abs(x) == IF x < 0 THEN -x ELSE x

Sgn(x) == IF x < 0 THEN -1 ELSE IF x > 0 THEN 1 ELSE 0

Max(a, b) == IF a >= b THEN a ELSE b

RECURSIVE GCD(_, _)
GCD(a, b) == IF b = 0 THEN a ELSE GCD(b, a % b)

\* n / d, g the gcd of |n| and |d|
RatOver(n, d, g) ==
  IF d < 0 THEN <<(-n) \div g, (-d) \div g>> ELSE <<n \div g, d \div g>>

Rat(n, d) == RatOver(n, d, GCD(Abs(n), Abs(d)))

RZero == <<0, 1>>

ROne == <<1, 1>>

RInt(k) == <<k, 1>>

RNeg(a) == <<-a[1], a[2]>>

\* a + b, g the gcd of the denominators
RAddOver(a, b, g) ==
  Rat(a[1] * (b[2] \div g) + b[1] * (a[2] \div g), a[2] * (b[2] \div g))

RAdd(a, b) == RAddOver(a, b, GCD(a[2], b[2]))

RSub(a, b) == RAdd(a, RNeg(b))

\* the product of two fractions that share no factor crosswise
RMulReduced(x, y) == <<x[1] * y[1], x[2] * y[2]>>

RMul(a, b) == RMulReduced(Rat(a[1], b[2]), Rat(b[1], a[2]))

RInv(a) == Rat(a[2], a[1])

RDiv(a, b) == RMul(a, RInv(b))

RSgn(a) == Sgn(a[1])

RAbs(a) == <<Abs(a[1]), a[2]>>

RCmp(a, b) == RSgn(RSub(a, b))

\* floor of the square root of a natural number (Newton's iteration)
RECURSIVE ISqrtIter(_, _)
ISqrtStep(n, x, y) == IF y >= x THEN x ELSE ISqrtIter(n, y)

ISqrtIter(n, x) == ISqrtStep(n, x, (x + n \div x) \div 2)

ISqrt(n) == IF n < 2 THEN n ELSE ISqrtIter(n, n)

IsSquare(n) == ISqrt(n) * ISqrt(n) = n

RIsSquare(a) == a[1] >= 0 /\ IsSquare(a[1]) /\ IsSquare(a[2])

RSqrt(a) == <<ISqrt(a[1]), ISqrt(a[2])>>

(***************************************************************************)
(* Floats.  [t |-> "fin", p, w] is the real  p + sgn(w) * sqrt(|w|), |w|   *)
(* never a nonzero perfect square; [t |-> "inf", p] is +inf (p = 1) or     *)
(* -inf (p = -1); [t |-> "nan"] is nan.                                    *)
(***************************************************************************)
NaN == [t |-> "nan", p |-> RZero, w |-> RZero]

Inf(s) == [t |-> "inf", p |-> RInt(s), w |-> RZero]

Fin(p, w) ==
  IF RIsSquare(RAbs(w))
    THEN [t |-> "fin", p |-> RAdd(p, RMul(RInt(RSgn(w)), RSqrt(RAbs(w)))), w |-> RZero]
    ELSE [t |-> "fin", p |-> p, w |-> w]

F(r) == [t |-> "fin", p |-> r, w |-> RZero]

FInt(k) == F(RInt(k))

FZero == FInt(0)

IsNaN(a) == a.t = "nan"

IsFinite(a) == a.t = "fin"

IsRational(a) == a.t = "fin" /\ a.w = RZero

\* a value this arithmetic cannot represent: evaluating it stops the check
Unrepresentable == CHOOSE x \in {} : TRUE

\* sign of  a + sgn(w) sqrt(|w|)  for rationals a, w
SurdSign(a, w) ==
  IF RSgn(w) = 0 THEN RSgn(a)
  ELSE IF RSgn(a) = 0 \/ RSgn(a) = RSgn(w) THEN RSgn(w)
  ELSE RSgn(w) * RCmp(RAbs(w), RMul(a, a))

\* sign of the finite float a
FinSign(a) == SurdSign(a.p, a.w)

\* sign of  x - y  given P = x.p - y.p and sL, the sign of
\* L = S(x.w) - S(y.w), S(w) = sgn(w) sqrt(|w|), increasing in w
FinCmpBy(x, y, P, sL) ==
  IF sL = 0 THEN RSgn(P)
  ELSE IF RSgn(P) = 0 \/ RSgn(P) = sL THEN sL
  ELSE \* opposite signs: compare P^2 with L^2 = |xw| + |yw| - 2 S(xw) S(yw)
       RSgn(P) * SurdSign(RSub(RMul(P, P), RAdd(RAbs(x.w), RAbs(y.w))),
                          RMul(RInt(4), RMul(x.w, y.w)))

\* sign of  x - y  for finite floats
FinCmp(x, y) == FinCmpBy(x, y, RSub(x.p, y.p), RCmp(x.w, y.w))

FSign(a) == IF a.t = "inf" THEN RSgn(a.p) ELSE FinSign(a)

FNeg(a) ==
  IF a.t = "nan" THEN NaN
  ELSE IF a.t = "inf" THEN Inf(-RSgn(a.p))
  ELSE [t |-> "fin", p |-> RNeg(a.p), w |-> RNeg(a.w)]

\* k * S(w) for rationals k, w, as a signed radicand
ScaleSurd(k, w) ==
  IF w = RZero THEN RZero ELSE RMul(RInt(RSgn(k)), RMul(RMul(k, k), w))

\* a + b for two surds whose radicands have the ratio q (in absolute value)
FAddSurds(a, b, q) ==
  IF RIsSquare(q)
    THEN \* S(a.w) = k S(b.w) with k = +-sqrt(q)
         Fin(RAdd(a.p, b.p),
             ScaleSurd(RAdd(RMul(RInt(RSgn(a.w) * RSgn(b.w)), RSqrt(q)), ROne), b.w))
    ELSE Unrepresentable

FAdd(a, b) ==
  IF a.t = "nan" \/ b.t = "nan" THEN NaN
  ELSE IF a.t = "inf" /\ b.t = "inf" THEN (IF a.p = b.p THEN a ELSE NaN)
  ELSE IF a.t = "inf" THEN a
  ELSE IF b.t = "inf" THEN b
  ELSE IF a.w = RZero THEN Fin(RAdd(a.p, b.p), b.w)
  ELSE IF b.w = RZero THEN Fin(RAdd(a.p, b.p), a.w)
  ELSE FAddSurds(a, b, RDiv(RAbs(a.w), RAbs(b.w)))

FSub(a, b) == FAdd(a, FNeg(b))

FMul(a, b) ==
  IF a.t = "nan" \/ b.t = "nan" THEN NaN
  ELSE IF a.t = "inf" \/ b.t = "inf"
    THEN (IF FSign(a) * FSign(b) = 0 THEN NaN ELSE Inf(FSign(a) * FSign(b)))
  ELSE IF a.w = RZero THEN Fin(RMul(a.p, b.p), ScaleSurd(a.p, b.w))
  ELSE IF b.w = RZero THEN Fin(RMul(a.p, b.p), ScaleSurd(b.p, a.w))
  ELSE IF a.p = RZero /\ b.p = RZero
    THEN (IF RAbs(a.w) = RAbs(b.w)
            THEN F(RMul(RInt(RSgn(a.w) * RSgn(b.w)), RAbs(a.w)))
            ELSE Fin(RZero, RMul(RInt(RSgn(a.w) * RSgn(b.w)), RMul(RAbs(a.w), RAbs(b.w)))))
  ELSE Unrepresentable

\* 1 / a for a finite nonzero float
FinInv(a) ==
  IF a.w = RZero THEN F(RInv(a.p))
  ELSE IF a.p = RZero THEN Fin(RZero, RMul(RInt(RSgn(a.w)), RInv(RAbs(a.w))))
  ELSE Unrepresentable

FDiv(a, b) ==
  IF a.t = "nan" \/ b.t = "nan" THEN NaN
  ELSE IF b.t = "inf" THEN (IF a.t = "inf" THEN NaN ELSE FZero)
  ELSE IF FinSign(b) = 0
    THEN (IF FSign(a) = 0 THEN NaN ELSE Inf(FSign(a)))
  ELSE IF a.t = "inf" THEN Inf(FSign(a) * FinSign(b))
  ELSE FMul(a, FinInv(b))

FSqrt(a) ==
  IF a.t = "nan" THEN NaN
  ELSE IF a.t = "inf" THEN (IF RSgn(a.p) > 0 THEN a ELSE NaN)
  ELSE IF FinSign(a) < 0 THEN NaN
  ELSE IF a.w = RZero THEN Fin(RZero, a.p)
  ELSE Unrepresentable

\* comparisons: false as soon as one side is nan
FLeq(a, b) ==
  IF a.t = "nan" \/ b.t = "nan" THEN FALSE
  ELSE IF a.t = "inf" THEN (RSgn(a.p) < 0 \/ b = a)
  ELSE IF b.t = "inf" THEN RSgn(b.p) > 0
  ELSE FinCmp(a, b) <= 0

FLt(a, b) ==
  IF a.t = "nan" \/ b.t = "nan" THEN FALSE
  ELSE IF a.t = "inf" THEN (RSgn(a.p) < 0 /\ b # a)
  ELSE IF b.t = "inf" THEN RSgn(b.p) > 0
  ELSE FinCmp(a, b) < 0

FEq(a, b) == a.t # "nan" /\ b.t # "nan" /\ a = b

FMaximum(a, b) ==
  IF a.t = "nan" \/ b.t = "nan" THEN NaN
  ELSE IF FLeq(b, a) THEN a ELSE b

(***************************************************************************)
(* numpy / scipy operations on arrays (sequences of floats).               *)
(***************************************************************************)
\* an array, held as a sequence
Arr(f) == f \o <<>>

RECURSIVE NpSumFrom(_, _)
NpSumFrom(a, k) == IF k > Len(a) THEN FZero ELSE FAdd(a[k], NpSumFrom(a, k + 1))

NpSum(a) == NpSumFrom(a, 1)

\* np.mean: the mean of an empty array is 0/0 = nan
NpMean(a) == FDiv(NpSum(a), FInt(Len(a)))

\* np.var(a, ddof): sum of squared deviations over max(n - ddof, 0)
\* the sum of squared deviations from m over max(n - ddof, 0)
NpVarAbout(a, ddof, m) ==
  FDiv(NpSum(Arr([k \in 1..Len(a) |-> FMul(FSub(a[k], m), FSub(a[k], m))])),
       FInt(Max(Len(a) - ddof, 0)))

NpVar(a, ddof) == NpVarAbout(a, ddof, NpMean(a))

NpStd(a, ddof) == FSqrt(NpVar(a, ddof))

\* np.cov(a, b, ddof)[0, 1]: the products' sum times 1/fact, fact = max(n - ddof, 0)
NpCovAbout(a, b, ddof, ma, mb) ==
  FMul(NpSum(Arr([k \in 1..Len(a) |-> FMul(FSub(a[k], ma), FSub(b[k], mb))])),
       FDiv(FInt(1), FInt(Max(Len(a) - ddof, 0))))

NpCov01(a, b, ddof) == NpCovAbout(a, b, ddof, NpMean(a), NpMean(b))

NpClip(a, lo, hi) ==
  IF a.t = "nan" THEN NaN
  ELSE IF FLt(a, lo) THEN lo ELSE IF FLt(hi, a) THEN hi ELSE a

\* np.corrcoef(a, b)[0, 1]: cov / stddev(a) / stddev(b), clipped to [-1, 1]
NpCorrcoef01(a, b) ==
  NpClip(FDiv(FDiv(NpCov01(a, b, 1), FSqrt(NpVar(a, 1))), FSqrt(NpVar(b, 1))),
         FInt(-1), FInt(1))

NpConcatenate(a, b) == a \o b

\* np.linspace(start, stop, num)
NpLinspace(start, stop, num) ==
  Arr([k \in 1..num |->
     FAdd(start, FDiv(FMul(FInt(k - 1), FSub(stop, start)), FInt(num - 1)))])

NpZeros(num) == Arr([k \in 1..num |-> FZero])

RECURSIVE Pow2(_)
Pow2(k) ==
  IF k = 0 THEN ROne
  ELSE IF k > 0 THEN RMul(RInt(2), Pow2(k - 1))
  ELSE RMul(<<1, 2>>, Pow2(k + 1))

\* np.exp on the half-integer lattice, with e replaced by 4: Exp(u) = 2^(2u)
Exp(u) ==
  IF u.t = "nan" THEN NaN
  ELSE IF u.t = "inf" THEN (IF RSgn(u.p) > 0 THEN u ELSE FZero)
  ELSE IF u.w = RZero /\ u.p[2] \in {1, 2} THEN F(Pow2((2 * u.p[1]) \div u.p[2]))
  ELSE Unrepresentable

\* norm.ppf on a grid of probabilities, the quantiles rounded to thirds
\* (1.96 to 2, 0.674 to 2/3); nan outside [0, 1], infinite at 0 and 1
NormPpf(q) ==
  IF q.t # "fin" THEN NaN
  ELSE IF FLt(q, FZero) \/ FLt(FInt(1), q) THEN NaN
  ELSE IF q = FZero THEN Inf(-1)
  ELSE IF q = FInt(1) THEN Inf(1)
  ELSE IF q = F(<<1, 40>>) THEN FInt(-2)
  ELSE IF q = F(<<1, 4>>) THEN F(<<-2, 3>>)
  ELSE IF q = F(<<1, 2>>) THEN FZero
  ELSE IF q = F(<<3, 4>>) THEN F(<<2, 3>>)
  ELSE IF q = F(<<39, 40>>) THEN FInt(2)
  ELSE Unrepresentable

(***************************************************************************)
(* The notebook's functions.  `normals` is the array the generator         *)
(* returned for this call.                                                 *)
(***************************************************************************)
Half == F(<<1, 2>>)

\* terminal_stockprice, after the draw
\* tmp1 = (r - 0.5 * sigma**2) * T
Drift(T, r, sigma) == FMul(FSub(r, FMul(Half, FMul(sigma, sigma))), T)

\* tmp2 = sigma * np.sqrt(T) * mynormals
Diffusion(normals, T, sigma) ==
  Arr([k \in 1..Len(normals) |-> FMul(FMul(sigma, FSqrt(T)), normals[k])])

\* stockprice = S0 * np.exp(tmp1 + tmp2)
StockPrice(S0, tmp1, tmp2) ==
  Arr([k \in 1..Len(tmp2) |-> FMul(S0, Exp(FAdd(tmp1, tmp2[k])))])

terminal_stockprice(normals, S0, T, r, sigma) ==
  StockPrice(S0, Drift(T, r, sigma), Diffusion(normals, T, sigma))

\* discounted payoffs without the floor at 0: those of a forward
DiscountedForwardPayoffs(stockprice, K, T, r) ==
  Arr([k \in 1..Len(stockprice) |-> FMul(Exp(FNeg(FMul(r, T))), FSub(stockprice[k], K))])

\* payoffs = np.maximum(mystockprice - K, 0); discountedpayoffs = np.exp(- r * T)*payoffs
DiscountedPayoffs(stockprice, K, T, r) ==
  Arr([k \in 1..Len(stockprice) |->
         FMul(Exp(FNeg(FMul(r, T))), FMaximum(FSub(stockprice[k], K), FZero))])

\* np.exp(- r * T) * mystockprice
DiscountedStock(stockprice, T, r) ==
  Arr([k \in 1..Len(stockprice) |-> FMul(Exp(FNeg(FMul(r, T))), stockprice[k])])

None == [t |-> "none", p |-> RZero, w |-> RZero]

Result(price, stderr, ci_left, ci_right, diag) ==
  [kind |-> "return", price |-> price, stderr |-> stderr,
   ci_left |-> ci_left, ci_right |-> ci_right, diag |-> diag]

\* the call ended in an exception: nothing is returned
Raised(err) ==
  [kind |-> err, price |-> None, stderr |-> None,
   ci_left |-> None, ci_right |-> None, diag |-> None]

\* aepsilon = norm.ppf(1.0 - myepsilon * 0.5)
Aepsilon(myepsilon) == NormPpf(FSub(FInt(1), FMul(myepsilon, Half)))

\* ci_left, ci_right around the price and the return statement
Estimate(price, standarddev_est, aepsilon, diag) ==
  Result(price, standarddev_est,
         FSub(price, FMul(aepsilon, standarddev_est)),
         FAdd(price, FMul(aepsilon, standarddev_est)), diag)

\* bs_call_mc from the discounted payoffs on
McOnPayoffs(discountedpayoffs, P, samplesize) ==
  Estimate(NpMean(discountedpayoffs),
           FDiv(NpStd(discountedpayoffs, 1), FSqrt(FInt(samplesize))),
           Aepsilon(P.myepsilon), None)

bs_call_mc(normals, P, samplesize) ==
  McOnPayoffs(DiscountedPayoffs(terminal_stockprice(normals, P.S0, P.T, P.r, P.sigma),
                                P.K, P.T, P.r),
              P, samplesize)

\* b* with the sign of the coefficient turned
CvBstarNeg(xs, discountedpayoffs) ==
  FNeg(FDiv(NpCov01(xs, discountedpayoffs, 1), NpVar(xs, 1)))

\* b* of bs_call_cv
CvBstar(xs, discountedpayoffs) == FDiv(NpCov01(xs, discountedpayoffs, 1), NpVar(xs, 1))

\* z = Y(b*) of bs_call_cv
CvZ(xs, discountedpayoffs, bstar, S0) ==
  Arr([k \in 1..Len(xs) |-> FSub(discountedpayoffs[k], FMul(bstar, FSub(xs[k], S0)))])

\* the covariance left unsquared
CvRhoUnsquaredOf(tmpcov, tmpvarx, tmpvary) == FDiv(tmpcov, FMul(tmpvarx, tmpvary))

\* tmpcov**2 / (tmpvarx * tmpvary)
CvRhoSquaredOf(tmpcov, tmpvarx, tmpvary) ==
  FDiv(FMul(tmpcov, tmpcov), FMul(tmpvarx, tmpvary))

\* rhosquared of bs_call_cv
CvRhoSquared(xs, discountedpayoffs) ==
  CvRhoSquaredOf(NpCov01(xs, discountedpayoffs, 1), NpVar(xs, 1),
                 NpVar(discountedpayoffs, 1))

\* bs_call_cv from z on
CvOnZ(z, rho2, P, samplesize) ==
  Estimate(NpMean(z), FDiv(NpStd(z, 1), FSqrt(FInt(samplesize))),
           Aepsilon(P.myepsilon), rho2)

\* bs_call_cv from xs and the discounted payoffs on
CvOnSample(xs, discountedpayoffs, P, samplesize) ==
  CvOnZ(CvZ(xs, discountedpayoffs, CvBstar(xs, discountedpayoffs), P.S0),
        CvRhoSquared(xs, discountedpayoffs), P, samplesize)

\* bs_call_cv from the terminal prices on
CvOnPrices(mystockprice, P, samplesize) ==
  CvOnSample(DiscountedStock(mystockprice, P.T, P.r),
             DiscountedPayoffs(mystockprice, P.K, P.T, P.r), P, samplesize)

bs_call_cv(normals, P, samplesize) ==
  CvOnPrices(terminal_stockprice(normals, P.S0, P.T, P.r, P.sigma), P, samplesize)

\* the negated normals handed back in reverse order
AntitheticReversed(mynormals1) ==
  Arr([k \in 1..Len(mynormals1) |-> FNeg(mynormals1[Len(mynormals1) + 1 - k])])

\* mynormals2 = - mynormals1
Antithetic(mynormals1) == Arr([k \in 1..Len(mynormals1) |-> FNeg(mynormals1[k])])

\* terminal_stockprice_av, after the draw: <<stockprice1, stockprice2, allstockprices>>
AvPrices(stockprice1, stockprice2) ==
  <<stockprice1, stockprice2, NpConcatenate(stockprice1, stockprice2)>>

terminal_stockprice_av(mynormals1, S0, T, r, sigma) ==
  AvPrices(StockPrice(S0, Drift(T, r, sigma), Diffusion(mynormals1, T, sigma)),
           StockPrice(S0, Drift(T, r, sigma), Diffusion(Antithetic(mynormals1), T, sigma)))

\* a sample size that counts the drawn half only
AvHalfSampleSize(halfsamplesize) == halfsamplesize

\* the sample size bs_call_av divides by: 2 * halfsamplesize
AvSampleSize(halfsamplesize) == 2 * halfsamplesize

\* discpayoffs1, discpayoffs2 from stockprice1, stockprice2
AvPayoffsOf(mystockprices, P) ==
  <<DiscountedPayoffs(mystockprices[1], P.K, P.T, P.r),
    DiscountedPayoffs(mystockprices[2], P.K, P.T, P.r)>>

\* the two discounted payoff sequences of bs_call_av, in the order it pairs them
AvDiscPayoffs(mynormals1, P) ==
  AvPayoffsOf(terminal_stockprice_av(mynormals1, P.S0, P.T, P.r, P.sigma), P)

\* an estimator that takes the paired covariance into its standard error
AvOnAllWithCov(discpayoffs, possiblereduction, P, halfsamplesize) ==
  Estimate(NpMean(discpayoffs),
           FSqrt(FAdd(FDiv(NpVar(discpayoffs, 1), FInt(AvSampleSize(halfsamplesize))),
                      possiblereduction)),
           Aepsilon(P.myepsilon), possiblereduction)

\* bs_call_av from the concatenated payoffs on
AvOnAll(discpayoffs, possiblereduction, P, halfsamplesize) ==
  Estimate(NpMean(discpayoffs),
           FDiv(NpStd(discpayoffs, 1), FSqrt(FInt(AvSampleSize(halfsamplesize)))),
           Aepsilon(P.myepsilon), possiblereduction)

\* thecov, possiblereduction and the concatenation
AvOnPayoffs(discpayoffs1, discpayoffs2, P, halfsamplesize) ==
  AvOnAll(NpConcatenate(discpayoffs1, discpayoffs2),
          FDiv(NpCov01(discpayoffs1, discpayoffs2, 1), FInt(2 * halfsamplesize)),
          P, halfsamplesize)

AvOnPair(d, P, halfsamplesize) == AvOnPayoffs(d[1], d[2], P, halfsamplesize)

bs_call_av(mynormals1, P, halfsamplesize) ==
  AvOnPair(AvDiscPayoffs(mynormals1, P), P, halfsamplesize)

\* rho[i] with rhosquared[i] = rho[i]**2
WithSquare(rho_i) == <<rho_i, FMul(rho_i, rho_i)>>

\* one iteration of the sweep's loop: <<rho[i], rhosquared[i]>>
SweepRho(mystockprice, k, T, r) ==
  WithSquare(NpCorrcoef01(DiscountedStock(mystockprice, T, r),
                          DiscountedPayoffs(mystockprice, k, T, r)))

(***************************************************************************)
(* Inputs of the model.                                                    *)
(***************************************************************************)
\* the values a standard normal draw takes in the model
Normals == {-1, 0, 1}

\* the seed of rng = np.random.default_rng(12345)
Seed == 12345

\* the parameters cell, on a scale the exact arithmetic represents: at the
\* money (S0 = K, as 50 and 50 in the notebook), T = r = 1, and sigma 1 or the
\* degenerate 0
S0Set == {FInt(8)}

KSet == {FInt(8)}

TSet == {FInt(1)}

rSet == {FInt(1)}

sigmaSet == {FZero, FInt(1)}

\* 0.05 as in the notebook, and 1.5, outside (0, 1)
EpsilonSet == {F(<<1, 20>>), F(<<3, 2>>)}

ParamSet ==
  [S0 : S0Set, K : KSet, T : TSet, r : rSet, sigma : sigmaSet, myepsilon : EpsilonSet]

\* sample sizes an estimator or the sweep is called with
SizeSet == -1..MaxN

\* half sample sizes the antithetic estimator is called with
HalfSizeSet == -1..MaxHalfN

\* sample sizes of the calls of a whole run of the notebook
RunSizeSet == {MaxN - 1, MaxN}

\* half sample sizes of the antithetic calls of a whole run of the notebook
RunHalfSizeSet == {MaxHalfN - 1}

\* what the generator seeded with Seed may hold at its first positions
Streams == {<<0, 0, 0, -1, 0, 1>>, <<-1, 0, 1, 1, -1, 0>>, <<1, 1, 0, -1, -1, 1>>}

\* parameters like the notebook's: sigma > 0 and myepsilon inside (0, 1)
RunParamSet ==
  {P \in ParamSet : FLt(FZero, P.sigma) /\ FLt(FZero, P.myepsilon) /\ FLt(P.myepsilon, FInt(1))}

\* the stop of the strike grid, strikes = np.linspace(0, stop, numberofk), on
\* the scale of S0: above S0 as the notebook's 80 is above 50
StrikeStop == 16

(***************************************************************************)
(* State.                                                                  *)
(***************************************************************************)
VARIABLES
  params,      \* S0, K, T, r, sigma, myepsilon of the notebook
  tape,        \* the seeded generator's output sequence, as far as it is known
  rng,         \* the generator: its seed and its position in that sequence
  log,         \* the calls made since the generator was seeded, with their results
  prev,        \* the log of the run before the generator was seeded again
  pc,          \* "idle", or "loop" inside the sweep's loop
  myst,        \* the sweep's sample of terminal prices
  strikes,     \* the sweep's strikes
  rho,         \* the sweep's rho array
  rhosquared,  \* the sweep's rhosquared array
  loop_i       \* number of strikes the sweep's loop has processed

vars == <<params, tape, rng, log, prev, pc, myst, strikes, rho, rhosquared, loop_i>>

sweepVars == <<myst, strikes, rho, rhosquared, loop_i>>

\* the notebook after its set-up cells, the generator's output still unknown
InitSample ==
  /\ params \in ParamSet
  /\ tape = <<>>
  /\ rng = [seed |-> Seed, pos |-> 0]
  /\ log = <<>>
  /\ prev = <<>>
  /\ pc = "idle"
  /\ myst = <<>>
  /\ strikes = NpLinspace(FZero, FInt(StrikeStop), NumberOfK)
  /\ rho = NpZeros(NumberOfK)
  /\ rhosquared = NpZeros(NumberOfK)
  /\ loop_i = 0

\* the notebook after its set-up cells, the generator's output one of Streams
Init ==
  /\ params \in RunParamSet
  /\ tape \in Streams
  /\ rng = [seed |-> Seed, pos |-> 0]
  /\ log = <<>>
  /\ prev = <<>>
  /\ pc = "idle"
  /\ myst = <<>>
  /\ strikes = NpLinspace(FZero, FInt(StrikeStop), NumberOfK)
  /\ rho = NpZeros(NumberOfK)
  /\ rhosquared = NpZeros(NumberOfK)
  /\ loop_i = 0

(***************************************************************************)
(* The generator.                                                          *)
(***************************************************************************)
\* what the sequence may hold beyond what is known of it, for a draw of size
TapeExtensions(size) ==
  [1..Max(rng.pos + size - Len(tape), 0) -> Normals]

\* the array rng.standard_normal(size) returns when the sequence is t
StandardNormal(t, size) ==
  Arr([k \in 1..size |-> FInt(t[rng.pos + k])])

\* a generator that hands out values without moving on
Stay(g, size) == g

\* the generator after rng.standard_normal(size)
Advance(g, size) == [g EXCEPT !.pos = g.pos + size]

\* the record of one call: what it was, the block of the sequence it consumed
\* (positions from + 1 .. to), the normals it was handed, and what it returned
Call(op, size, g, normals, out) ==
  [op |-> op, size |-> size, from |-> rng.pos, to |-> g.pos,
   normals |-> normals, out |-> out]

\* the first cell run again without making a new generator
KeepStream ==
  /\ pc = "idle"
  /\ prev = <<>>
  /\ log # <<>>
  /\ prev' = log
  /\ log' = <<>>
  /\ UNCHANGED <<params, tape, rng, pc, sweepVars>>

\* rng = np.random.default_rng(12345), run again after a run of the notebook
SeedRng ==
  /\ pc = "idle"
  /\ prev = <<>>
  /\ log # <<>>
  /\ rng' = [seed |-> Seed, pos |-> 0]
  /\ prev' = log
  /\ log' = <<>>
  /\ UNCHANGED <<params, tape, pc, sweepVars>>

(***************************************************************************)
(* The estimators' calls.  A negative size makes rng.standard_normal raise *)
(* ValueError before anything is drawn.                                    *)
(***************************************************************************)
CanCall == pc = "idle" /\ Len(log) < MaxCalls

CallMc(samplesize) ==
  /\ CanCall
  /\ IF samplesize < 0
       THEN /\ log' = Append(log, Call("mc", samplesize, rng, <<>>, Raised("ValueError")))
            /\ UNCHANGED <<tape, rng>>
       ELSE \E ext \in TapeExtensions(samplesize) :
              /\ tape' = tape \o ext
              /\ rng' = Advance(rng, samplesize)
              /\ LET normals == StandardNormal(tape', samplesize)
                 IN  log' = Append(log, Call("mc", samplesize, rng', normals,
                                      bs_call_mc(normals, params, samplesize)))
  /\ UNCHANGED <<params, prev, pc, sweepVars>>

CallCv(samplesize) ==
  /\ CanCall
  /\ IF samplesize < 0
       THEN /\ log' = Append(log, Call("cv", samplesize, rng, <<>>, Raised("ValueError")))
            /\ UNCHANGED <<tape, rng>>
       ELSE \E ext \in TapeExtensions(samplesize) :
              /\ tape' = tape \o ext
              /\ rng' = Advance(rng, samplesize)
              /\ LET normals == StandardNormal(tape', samplesize)
                 IN  log' = Append(log, Call("cv", samplesize, rng', normals,
                                      bs_call_cv(normals, params, samplesize)))
  /\ UNCHANGED <<params, prev, pc, sweepVars>>

\* an antithetic estimator that leaves its prices in the notebook's myst
CallAvKeepingPrices(halfsamplesize) ==
  /\ CanCall
  /\ halfsamplesize >= 0
  /\ \E ext \in TapeExtensions(halfsamplesize) :
       /\ tape' = tape \o ext
       /\ rng' = Advance(rng, halfsamplesize)
       /\ LET mynormals1 == StandardNormal(tape', halfsamplesize)
          IN  /\ log' = Append(log, Call("av", halfsamplesize, rng', mynormals1,
                                   bs_call_av(mynormals1, params, halfsamplesize)))
              /\ myst' = terminal_stockprice_av(mynormals1, params.S0, params.T,
                                                params.r, params.sigma)[3]
  /\ UNCHANGED <<params, prev, pc, strikes, rho, rhosquared, loop_i>>

CallAv(halfsamplesize) ==
  /\ CanCall
  /\ IF halfsamplesize < 0
       THEN /\ log' = Append(log, Call("av", halfsamplesize, rng, <<>>, Raised("ValueError")))
            /\ UNCHANGED <<tape, rng>>
       ELSE \E ext \in TapeExtensions(halfsamplesize) :
              /\ tape' = tape \o ext
              /\ rng' = Advance(rng, halfsamplesize)
              /\ LET mynormals1 == StandardNormal(tape', halfsamplesize)
                 IN  log' = Append(log, Call("av", halfsamplesize, rng', mynormals1,
                                      bs_call_av(mynormals1, params, halfsamplesize)))
  /\ UNCHANGED <<params, prev, pc, sweepVars>>

(***************************************************************************)
(* The sweep: the sample is generated, then the loop runs over the strikes *)
(* with nothing else in between.                                           *)
(***************************************************************************)
SweepGenerate(samplesize) ==
  /\ CanCall
  /\ IF samplesize < 0
       THEN /\ log' = Append(log, Call("sweep", samplesize, rng, <<>>, Raised("ValueError")))
            /\ UNCHANGED <<tape, rng, pc, myst, loop_i>>
       ELSE \E ext \in TapeExtensions(samplesize) :
              /\ tape' = tape \o ext
              /\ rng' = Advance(rng, samplesize)
              /\ LET normals == StandardNormal(tape', samplesize)
                 IN  /\ myst' = terminal_stockprice(normals,
                                  params.S0, params.T, params.r, params.sigma)
                     /\ log' = Append(log, Call("sweep", samplesize, rng', normals,
                                          Result(None, None, None, None, None)))
              /\ pc' = "loop"
              /\ loop_i' = 0
  /\ UNCHANGED <<params, prev, strikes, rho, rhosquared>>

\* a loop body that draws from the generator for every strike
SweepStrikeDrawing ==
  /\ pc = "loop"
  /\ LET mystockprice == myst
         k == strikes[loop_i + 1]
         rr == SweepRho(mystockprice, k, params.T, params.r)
     IN  /\ rho' = [rho EXCEPT ![loop_i + 1] = rr[1]]
         /\ rhosquared' = [rhosquared EXCEPT ![loop_i + 1] = rr[2]]
  /\ rng' = Advance(rng, 1)
  /\ loop_i' = loop_i + 1
  /\ pc' = IF loop_i + 1 = NumberOfK THEN "idle" ELSE "loop"
  /\ UNCHANGED <<params, tape, log, prev, myst, strikes>>

SweepStrike ==
  /\ pc = "loop"
  /\ LET mystockprice == myst
         k == strikes[loop_i + 1]
         rr == SweepRho(mystockprice, k, params.T, params.r)
     IN  /\ rho' = [rho EXCEPT ![loop_i + 1] = rr[1]]
         /\ rhosquared' = [rhosquared EXCEPT ![loop_i + 1] = rr[2]]
  /\ loop_i' = loop_i + 1
  /\ pc' = IF loop_i + 1 = NumberOfK THEN "idle" ELSE "loop"
  /\ UNCHANGED <<params, tape, rng, log, prev, myst, strikes>>

(***************************************************************************)
(* Spec: runs of the notebook.  Up to MaxCalls calls, in any order, on the *)
(* shared generator; then the generator is seeded again and a second run   *)
(* follows.                                                                *)
(***************************************************************************)
Next ==
  \/ SeedRng
  \/ \E samplesize \in RunSizeSet : CallMc(samplesize)
  \/ \E samplesize \in RunSizeSet : CallCv(samplesize)
  \/ \E halfsamplesize \in RunHalfSizeSet : CallAv(halfsamplesize)
  \/ \E samplesize \in RunSizeSet : SweepGenerate(samplesize)
  \/ SweepStrike

Spec == Init /\ [][Next]_vars

(***************************************************************************)
(* SpecSample: one call on the freshly seeded generator, for every size    *)
(* and every sample the generator may hand out.                            *)
(***************************************************************************)
FirstCall == log = <<>> /\ prev = <<>>

NextSample ==
  \/ \E samplesize \in SizeSet : FirstCall /\ CallMc(samplesize)
  \/ \E samplesize \in SizeSet : FirstCall /\ CallCv(samplesize)
  \/ \E halfsamplesize \in HalfSizeSet : FirstCall /\ CallAv(halfsamplesize)
  \/ \E samplesize \in SizeSet : FirstCall /\ SweepGenerate(samplesize)
  \/ SweepStrike

SpecSample == InitSample /\ [][NextSample]_vars

(***************************************************************************)
(* What the calls of a run recorded.                                       *)
(***************************************************************************)
\* the calls of both runs
AllCalls == {prev[k] : k \in 1..Len(prev)} \cup {log[k] : k \in 1..Len(log)}

\* the call returned a result instead of raising
Returned(c) == c.out.kind = "return"

\* the positions of the sequence a call consumed
Block(c) == (c.from + 1)..c.to

\* every call of the run consumed the block that starts where the call before
\* it stopped, one position per requested draw, and was handed the values there
ContiguousRun(run) ==
  \A k \in 1..Len(run) :
    /\ run[k].from = (IF k = 1 THEN 0 ELSE run[k - 1].to)
    /\ run[k].to = run[k].from + Max(run[k].size, 0)
    /\ run[k].normals = Arr([j \in 1..Max(run[k].size, 0) |-> FInt(tape[run[k].from + j])])

\* no two calls of the run consumed a common position
DisjointRun(run) ==
  \A j, k \in 1..Len(run) : j < k => Block(run[j]) \cap Block(run[k]) = {}

\* C1: the stream's position is advanced exactly once per requested draw and
\* never rewound: in each run on one seeded generator every call consumes a
\* contiguous block starting where the previous call stopped, the blocks of
\* any two calls are disjoint, the generator stands at the end of the last
\* block, and a step other than seeding it again never decreases its position.
C1_StreamAdvances ==
  /\ [](/\ ContiguousRun(prev)
        /\ ContiguousRun(log)
        /\ DisjointRun(prev)
        /\ DisjointRun(log)
        /\ rng.pos = (IF log = <<>> THEN 0 ELSE log[Len(log)].to))
  /\ [][rng'.pos >= rng.pos \/ (log # <<>> /\ log' = <<>>)]_vars

\* a control-variate call of 3 draws followed by an antithetic call of 1 draw,
\* after a first run that consumed positions as well
C1_Witness ==
  /\ Len(prev) = 2
  /\ Len(log) = 2
  /\ log[1].op = "cv" /\ log[1].size = 3 /\ Block(log[1]) = 1..3
  /\ log[2].op = "av" /\ log[2].size = 1 /\ Block(log[2]) = {4}
  /\ rng.pos = 4

\* the first k calls of the two runs were the same calls in the same order
SameCalls(k) ==
  \A j \in 1..k : log[j].op = prev[j].op /\ log[j].size = prev[j].size

\* C2: determinism: two runs that start from a generator freshly seeded with
\* the same seed and make the same calls in the same order with the same
\* parameters are handed the same draws and return identical results (price,
\* stderr, ci_left, ci_right and diagnostic), call by call.
C2_Deterministic ==
  \A k \in 1..Len(log) :
    (k <= Len(prev) /\ SameCalls(k)) =>
      /\ log[k].normals = prev[k].normals
      /\ log[k].out = prev[k].out

\* both runs made a plain call of 3 draws and then a control-variate call of
\* 2 draws, each returning finite and different estimates
C2_Witness ==
  /\ Len(prev) = 2
  /\ Len(log) = 2
  /\ SameCalls(2)
  /\ log[1].op = "mc" /\ log[1].size = 3
  /\ log[2].op = "cv" /\ log[2].size = 2
  /\ IsFinite(log[1].out.stderr) /\ IsFinite(log[2].out.stderr)
  /\ log[1].out.price # log[2].out.price
  /\ log[2].normals # log[1].normals
  /\ log[2].out = prev[2].out

\* the calls of the three estimators
EstimatorOps == {"mc", "cv", "av"}

\* the calls of the three estimators that returned a result
EstimatorResults == {c \in AllCalls : c.op \in EstimatorOps /\ Returned(c)}

\* C3: for every result returned by the plain, control-variate or antithetic
\* estimator, ci_left <= price <= ci_right, stderr >= 0, and the interval is
\* symmetric around the price (price - ci_left = ci_right - price).
C3_IntervalAroundPrice ==
  \A c \in EstimatorResults :
    /\ FLeq(c.out.ci_left, c.out.price)
    /\ FLeq(c.out.price, c.out.ci_right)
    /\ FLeq(FZero, c.out.stderr)
    /\ FEq(FSub(c.out.price, c.out.ci_left), FSub(c.out.ci_right, c.out.price))

\* a plain call and a control-variate call that returned, with the same
\* parameters and the same sample count n
McCvPairs ==
  {pair \in AllCalls \X AllCalls :
     /\ pair[1].op = "mc" /\ pair[2].op = "cv"
     /\ Returned(pair[1]) /\ Returned(pair[2])
     /\ pair[1].size = pair[2].size}

\* C4 as stated: for the same parameters and the same sample count n, the
\* stderr the control-variate estimator returns is at most the stderr the
\* plain estimator returns whenever the control-variate's rhosquared is > 0.
C4_AsStated ==
  \A pair \in McCvPairs :
    FLt(FZero, pair[2].out.diag) => FLeq(pair[2].out.stderr, pair[1].out.stderr)

\* C4 amended: for the same parameters and the same sample count n, when both
\* estimators were handed the same draws (the same block of the same seeded
\* sequence), the control-variate stderr is at most the plain stderr whenever
\* rhosquared > 0.
C4_SameDraws ==
  \A pair \in McCvPairs :
    (pair[1].normals = pair[2].normals /\ FLt(FZero, pair[2].out.diag)) =>
      FLeq(pair[2].out.stderr, pair[1].out.stderr)

\* a plain call in the first run and a control-variate call after seeding
\* again, both on the same 3 draws, with 0 < rhosquared < 1 and a positive
\* and strictly smaller control-variate stderr
C4_Witness ==
  \E pair \in McCvPairs :
    /\ pair[1].size = 3
    /\ pair[1].normals = pair[2].normals
    /\ FLt(FZero, pair[2].out.diag) /\ FLt(pair[2].out.diag, FInt(1))
    /\ FLt(FZero, pair[2].out.stderr)
    /\ FLt(pair[2].out.stderr, pair[1].out.stderr)

\* C5: for every strike of the sweep and every sample of terminal prices, the
\* rhosquared value the sweep reports for that strike lies in [0, 1].
C5_RhoSquaredInUnitInterval ==
  \A j \in 1..loop_i :
    FLeq(FZero, rhosquared[j]) /\ FLeq(rhosquared[j], FInt(1))

\* the antithetic calls that returned a result
AvResults == {c \in AllCalls : c.op = "av" /\ Returned(c)}

\* the plain calls that returned a result
McResults == {c \in AllCalls : c.op = "mc" /\ Returned(c)}

\* how many positions of the stream a draw of size values consumes
DrawCount(size) == Advance([seed |-> Seed, pos |-> 0], size).pos

\* the number of stream positions a call consumed
Consumed(c) == c.to - c.from

\* the stderr of the concatenation of the two payoff sequences of an
\* antithetic call, with sample size n
AvStderrWith(c, n) ==
  FDiv(NpStd(NpConcatenate(AvDiscPayoffs(c.normals, params)[1],
                           AvDiscPayoffs(c.normals, params)[2]), 1),
       FSqrt(FInt(n)))

\* C6 as stated: the antithetic estimator called with half_n uses 2 * half_n
\* as its sample size for stderr, and the number of draws it takes from the
\* stream is that of a plain estimator run with n = 2 * half_n.
C6_AsStated ==
  \A c \in AvResults :
    /\ c.out.stderr = AvStderrWith(c, 2 * c.size)
    /\ Consumed(c) = DrawCount(2 * c.size)

\* C6 amended: the antithetic estimator called with half_n uses 2 * half_n as
\* its sample size for stderr, on a sample of 2 * half_n payoffs, but takes
\* only half_n draws from the stream, half of what a plain estimator run with
\* n = 2 * half_n takes (a plain call with n takes n).
C6_HalfTheDraws ==
  /\ \A c \in AvResults :
       /\ c.out.stderr = AvStderrWith(c, 2 * c.size)
       /\ Len(AvDiscPayoffs(c.normals, params)[1]) = c.size
       /\ Len(AvDiscPayoffs(c.normals, params)[2]) = c.size
       /\ Consumed(c) = c.size
       /\ 2 * Consumed(c) = DrawCount(2 * c.size)
  /\ \A c \in McResults : Consumed(c) = DrawCount(c.size)

\* an antithetic call with half_n = 2 that returned a positive stderr after
\* taking 2 draws
C6_Witness ==
  \E c \in AvResults :
    /\ c.size = 2
    /\ Consumed(c) = 2
    /\ FLt(FZero, c.out.stderr)
    /\ c.out.stderr = AvStderrWith(c, 4)

\* the terminal price computed from the single draw x
PriceFrom(x) ==
  terminal_stockprice(<<x>>, params.S0, params.T, params.r, params.sigma)[1]

\* the discounted payoff of the single terminal price s
PayoffFrom(s) == DiscountedPayoffs(<<s>>, params.K, params.T, params.r)[1]

\* what terminal_stockprice_av made of the draws of the antithetic call c
AvSample(c) ==
  terminal_stockprice_av(c.normals, params.S0, params.T, params.r, params.sigma)

\* the payoffs of the draws x_1 .. x_h of c, in the order drawn
PayoffsOfDraws(c) ==
  Arr([i \in 1..Len(c.normals) |-> PayoffFrom(PriceFrom(c.normals[i]))])

\* the payoffs of -x_1 .. -x_h, in the order drawn
PayoffsOfNegatedDraws(c) ==
  Arr([i \in 1..Len(c.normals) |-> PayoffFrom(PriceFrom(FNeg(c.normals[i])))])

\* C7: antithetic pairing is index-aligned and preserved: in an antithetic
\* call with half_n draws x_1 .. x_half_n, element i of the first sequence is
\* computed from x_i and element i of the second from -x_i; the concatenated
\* sample has length 2 * half_n with the first sequence in its first half_n
\* positions and the second in the last half_n, each in order; and the paired
\* covariance of the diagnostic is taken over the payoffs of x_i and -x_i in
\* this same order.
C7_PairingAligned ==
  \A c \in AvResults :
    /\ Len(AvSample(c)[1]) = c.size
    /\ Len(AvSample(c)[2]) = c.size
    /\ Len(AvSample(c)[3]) = 2 * c.size
    /\ \A i \in 1..c.size :
         /\ AvSample(c)[1][i] = PriceFrom(c.normals[i])
         /\ AvSample(c)[2][i] = PriceFrom(FNeg(c.normals[i]))
         /\ AvSample(c)[3][i] = AvSample(c)[1][i]
         /\ AvSample(c)[3][c.size + i] = AvSample(c)[2][i]
    /\ AvDiscPayoffs(c.normals, params) = <<PayoffsOfDraws(c), PayoffsOfNegatedDraws(c)>>
    /\ c.out.diag = FDiv(NpCov01(PayoffsOfDraws(c), PayoffsOfNegatedDraws(c), 1),
                         FInt(2 * c.size))

\* an antithetic call with half_n = 2 on two different draws whose paired
\* covariance is negative
C7_Witness ==
  \E c \in AvResults :
    /\ c.size = 2
    /\ c.normals[1] # c.normals[2]
    /\ AvSample(c)[1] # AvSample(c)[2]
    /\ FLt(c.out.diag, FZero)

\* the call that generated the sweep's sample: the last call of the run
SweepCall == log[Len(log)]

\* C8: the sweep draws its sample of terminal prices from the stream exactly
\* once, before the first strike; processing a strike neither advances the
\* stream nor changes the sample, so every strike is evaluated on the same
\* sample; and the (rho, rhosquared) reported for a strike is a function of
\* that strike and the fixed sample only.
C8_OneSampleForAllStrikes ==
  /\ [](/\ pc = "loop" =>
             /\ log # <<>>
             /\ SweepCall.op = "sweep"
             /\ Consumed(SweepCall) = SweepCall.size
             /\ rng.pos = SweepCall.to
             /\ myst = terminal_stockprice(SweepCall.normals, params.S0, params.T,
                                           params.r, params.sigma)
        /\ \A j \in 1..loop_i :
             <<rho[j], rhosquared[j]>> = SweepRho(myst, strikes[j], params.T, params.r))
  /\ [][pc = "loop" => (rng' = rng /\ tape' = tape /\ myst' = myst /\ log' = log
                        /\ strikes' = strikes)]_vars

\* the loop has finished on a sample of 3 prices: the correlation is 1 at
\* strike 0 and strictly between 0 and 1 at the second strike, and the stream
\* stands where the generation of the sample left it
C8_Witness ==
  /\ pc = "idle"
  /\ loop_i = NumberOfK
  /\ log # <<>>
  /\ SweepCall.op = "sweep" /\ SweepCall.size = 3
  /\ rng.pos = SweepCall.to
  /\ Len(myst) = 3
  /\ rhosquared[1] = FInt(1)
  /\ FLt(FZero, rhosquared[2]) /\ FLt(rhosquared[2], FInt(1))

\* C9: the plain estimator called with a sample size n < 2 fails with
\* InsufficientSamples and returns no result; it returns a result only when
\* n >= 2.  (The ValueError of a negative size is let pass as that failure.)
C9_InsufficientSamples ==
  \A c \in AllCalls :
    c.op = "mc" =>
      /\ c.size < 2 => c.out.kind \in {"InsufficientSamples", "ValueError"}
      /\ Returned(c) => c.size >= 2

\* C10: the control-variate estimator fails with DegenerateControl, instead of
\* returning a result, whenever the sample variance of the control X (the
\* discounted terminal prices of its draws) is zero, for example when
\* sigma = 0.
C10_DegenerateControl ==
  \A c \in AllCalls :
    (/\ c.op = "cv"
     /\ c.size >= 2
     /\ NpVar(DiscountedStock(terminal_stockprice(c.normals, params.S0, params.T,
                                                  params.r, params.sigma),
                              params.T, params.r), 1) = FZero) =>
      c.out.kind = "DegenerateControl"

\* the call ended in the failure Python raises for an invalid argument
InvalidArgument(c) == c.out.kind \in {"InvalidArgument", "ValueError"}

\* C11: a draw of n values from the stream fails with InvalidArgument when
\* n <= 0 (n = 0 included), and the stream position is then not advanced;
\* this holds for the draw of the plain sampler (plain and control-variate
\* estimators, sweep) and of the antithetic sampler.
C11_NonPositiveDrawFails ==
  \A c \in AllCalls :
    c.size <= 0 => (InvalidArgument(c) /\ Consumed(c) = 0)

\* myepsilon lies in the open interval (0, 1)
EpsilonValid == FLt(FZero, params.myepsilon) /\ FLt(params.myepsilon, FInt(1))

\* the sample of the estimator call c has at least 2 values
EnoughSamples(c) == (IF c.op = "av" THEN 2 * c.size ELSE c.size) >= 2

\* C12: each estimator called with epsilon outside the open interval (0, 1)
\* fails with InvalidArgument and returns no result, neither partial nor
\* complete.  (Stated for the calls whose sample size is valid, which have no
\* other reason to fail.)
C12_EpsilonOutsideFails ==
  \A c \in AllCalls :
    (c.op \in EstimatorOps /\ EnoughSamples(c) /\ ~EpsilonValid) =>
      (InvalidArgument(c) /\ ~Returned(c))

\* the step is a call of one of the three estimators
EstimatorCallStep ==
  /\ Len(log') = Len(log) + 1
  /\ log'[Len(log')].op \in EstimatorOps

\* C13: a call to the plain, control-variate or antithetic estimator changes
\* no state that outlives the call except the stream position: the model
\* parameters, the results returned by earlier calls (of this run and of the
\* run before) and the previously generated sample with what the sweep made
\* of it are unchanged, and so is the sequence the generator already handed
\* out.
C13_CallChangesOnlyStream ==
  [][EstimatorCallStep =>
       /\ params' = params
       /\ SubSeq(log', 1, Len(log)) = log
       /\ prev' = prev
       /\ myst' = myst
       /\ strikes' = strikes
       /\ rho' = rho
       /\ rhosquared' = rhosquared
       /\ SubSeq(tape', 1, Len(tape)) = tape
       /\ rng'.seed = rng.seed]_vars

\* an antithetic call made after a finished sweep over a sample of 3 prices,
\* in the second run
C13_Witness ==
  /\ Len(prev) = 2
  /\ Len(log) = 2
  /\ log[1].op = "sweep" /\ log[1].size = 3
  /\ log[2].op = "av" /\ Returned(log[2])
  /\ Len(myst) = 3
  /\ loop_i = NumberOfK
  /\ rng.pos = 4

\* exp(-rT) * max(s - K, 0) for one terminal price s and strike K
PayoffAt(s, K) ==
  FMul(Exp(FNeg(FMul(params.r, params.T))), FMaximum(FSub(s, K), FZero))

\* the sequence whose element i is the discounted payoff of sample[i]
ElementwisePayoffs(sample, K) ==
  Arr([i \in 1..Len(sample) |-> PayoffAt(sample[i], K)])

\* the payoff sequence has the length of the sample, element i is the payoff
\* of the sample's element i, and no value is negative
PayoffsOf(payoffs, sample, K) ==
  /\ Len(payoffs) = Len(sample)
  /\ payoffs = ElementwisePayoffs(sample, K)
  /\ \A i \in 1..Len(payoffs) : FLeq(FZero, payoffs[i])

\* the terminal prices a plain or control-variate call made of its draws
SampleOf(c) ==
  terminal_stockprice(c.normals, params.S0, params.T, params.r, params.sigma)

\* C14: in every estimator and in the sweep the discounted payoff sequence has
\* the same length and order as the terminal-price sample it is computed from
\* (element i is exp(-rT) * max(S_i - K, 0)) and all its values are
\* non-negative; the estimators' prices are the means of these sequences.
C14_PayoffsFollowSample ==
  /\ \A c \in AllCalls :
       /\ (c.op \in {"mc", "cv"} /\ Returned(c)) =>
            /\ Len(SampleOf(c)) = c.size
            /\ PayoffsOf(DiscountedPayoffs(SampleOf(c), params.K, params.T, params.r),
                         SampleOf(c), params.K)
       /\ (c.op = "mc" /\ Returned(c)) =>
            c.out.price = NpMean(ElementwisePayoffs(SampleOf(c), params.K))
       /\ (c.op = "av" /\ Returned(c)) =>
            /\ PayoffsOf(AvDiscPayoffs(c.normals, params)[1], AvSample(c)[1], params.K)
            /\ PayoffsOf(AvDiscPayoffs(c.normals, params)[2], AvSample(c)[2], params.K)
            /\ c.out.price = NpMean(ElementwisePayoffs(AvSample(c)[3], params.K))
  /\ \A j \in 1..NumberOfK :
       PayoffsOf(DiscountedPayoffs(myst, strikes[j], params.T, params.r), myst, strikes[j])
  /\ \A j \in 1..loop_i :
       rho[j] = NpCorrcoef01(DiscountedStock(myst, params.T, params.r),
                             ElementwisePayoffs(myst, strikes[j]))

\* a plain call on 3 draws whose first price lies below the strike, with payoff
\* 0, and whose second lies above it, with a positive payoff
C14_Witness ==
  \E c \in McResults :
    /\ c.size = 3
    /\ FLt(SampleOf(c)[1], params.K)
    /\ DiscountedPayoffs(SampleOf(c), params.K, params.T, params.r)[1] = FZero
    /\ FLt(params.K, SampleOf(c)[2])
    /\ FLt(FZero, DiscountedPayoffs(SampleOf(c), params.K, params.T, params.r)[2])
    /\ FLt(FZero, c.out.price)

\* the control-variate calls that returned a result
CvResults == {c \in AllCalls : c.op = "cv" /\ Returned(c)}

\* X, the control: the discounted terminal prices of the call's draws
CvX(c) == DiscountedStock(SampleOf(c), params.T, params.r)

\* Y, the discounted payoffs of the call's draws
CvY(c) == DiscountedPayoffs(SampleOf(c), params.K, params.T, params.r)

\* Z_i = Y_i - b* (X_i - S0) with b* = Cov(X, Y) / Var(X)
CvAdjusted(c) ==
  CvZ(CvX(c), CvY(c), FDiv(NpCov01(CvX(c), CvY(c), 1), NpVar(CvX(c), 1)), params.S0)

\* the sample of the call has positive variance in X and in Y
CvNonDegenerate(c) ==
  FLt(FZero, NpVar(CvX(c), 1)) /\ FLt(FZero, NpVar(CvY(c), 1))

\* C15: in the control-variate estimator, with b* = Cov(X, Y) / Var(X) from the
\* unbiased sample covariance and variance over the same n observations and
\* Z_i = Y_i - b* (X_i - S0), the sample variance of Z equals
\* Var(Y) * (1 - rhosquared) for every sample with Var(X) > 0 and Var(Y) > 0,
\* rhosquared being the diagnostic the estimator returns; hence
\* Var(Z) <= Var(Y); and the returned stderr is sqrt(Var(Z) / n).
C15_VarianceReduction ==
  \A c \in CvResults :
    CvNonDegenerate(c) =>
      /\ NpVar(CvAdjusted(c), 1) = FMul(NpVar(CvY(c), 1), FSub(FInt(1), c.out.diag))
      /\ FLeq(NpVar(CvAdjusted(c), 1), NpVar(CvY(c), 1))
      /\ c.out.stderr = FDiv(FSqrt(NpVar(CvAdjusted(c), 1)), FSqrt(FInt(c.size)))

\* a control-variate call on 3 draws with 0 < rhosquared < 1, where Z has a
\* positive variance strictly below that of Y
C15_Witness ==
  \E c \in CvResults :
    /\ c.size = 3
    /\ CvNonDegenerate(c)
    /\ FLt(FZero, c.out.diag) /\ FLt(c.out.diag, FInt(1))
    /\ FLt(FZero, NpVar(CvAdjusted(c), 1))
    /\ FLt(NpVar(CvAdjusted(c), 1), NpVar(CvY(c), 1))

\* the concatenation of the two payoff sequences of the antithetic call c
AvAllPayoffs(c) ==
  NpConcatenate(AvDiscPayoffs(c.normals, params)[1], AvDiscPayoffs(c.normals, params)[2])

\* what the plain estimator's formulas give on the concatenation of c's payoff
\* sequences, taken as one sample of size 2 * half_n
PlainOnConcatenation(c) == McOnPayoffs(AvAllPayoffs(c), params, 2 * c.size)

\* C16: the antithetic estimator's price, stderr and confidence interval are
\* exactly those the plain estimator's formulas give on the concatenation of
\* the two paired payoff sequences treated as one sample of size 2 * half_n;
\* the paired covariance enters only the diagnostic, which is
\* Cov(Y1, Y2) / (2 * half_n).
C16_AvIsPlainOnConcatenation ==
  \A c \in AvResults :
    /\ Len(AvAllPayoffs(c)) = 2 * c.size
    /\ c.out.price = PlainOnConcatenation(c).price
    /\ c.out.stderr = PlainOnConcatenation(c).stderr
    /\ c.out.ci_left = PlainOnConcatenation(c).ci_left
    /\ c.out.ci_right = PlainOnConcatenation(c).ci_right
    /\ c.out.diag = FDiv(NpCov01(AvDiscPayoffs(c.normals, params)[1],
                                 AvDiscPayoffs(c.normals, params)[2], 1),
                         FInt(2 * c.size))

\* an antithetic call with half_n = 2 whose paired covariance is not zero and
\* whose interval is a proper one around the price
C16_Witness ==
  \E c \in AvResults :
    /\ c.size = 2
    /\ IsFinite(c.out.diag) /\ c.out.diag # FZero
    /\ FLt(c.out.ci_left, c.out.price) /\ FLt(c.out.price, c.out.ci_right)
    /\ c.out.stderr = PlainOnConcatenation(c).stderr

====
